---- MODULE Spec2Model ----
(***************************************************************************)
(* Model of the Juliee voice-assistant gateway (src/flask_app.py): the     *)
(* three POST endpoints /ask, /speech-to-text and /text-to-speech, the     *)
(* providers they call, the module logger, and the file system path        *)
(* 'speech.mp3' that every /text-to-speech request shares.                 *)
(*                                                                         *)
(* /ask and /speech-to-text touch no shared state, so each is one action.  *)
(* /text-to-speech is split at the points where it touches the shared      *)
(* path (open, write, send_file, os.path.exists, os.remove) and at the     *)
(* point where the WSGI server streams the response the handler returned,  *)
(* so that concurrent requests interleave as worker threads do.            *)
(***************************************************************************)
EXTENDS Integers, Sequences, FiniteSets, TLC

\* Number of request slots (worker threads); each slot serves one request.
NumRequests == 2

Requests == 1..NumRequests

----------------------------------------------------------------------------
(* JSON bodies and Python values *)

\* A key the JSON object does not carry.
Absent == "<absent>"
\* JSON null / Python None.
Null == "<null>"

\* dict.get(key, default)
Get(data, key, default) == IF data[key] = Absent THEN default ELSE data[key]

\* Python truthiness of a str-or-None value: `not v` is true for '' and None.
Truthy(v) == v # "" /\ v # Null

\* request.json: either no JSON object (None, or a non-dict value) or a dict.
NoObject == [isObject |-> FALSE, data |-> [query |-> Absent, model |-> Absent, text |-> Absent]]

JsonObject(q, m, t) == [isObject |-> TRUE, data |-> [query |-> q, model |-> m, text |-> t]]

Queries == {Absent, "", "What is TLA+?"}

Models == {Absent, Null, "ChatGPT", "Gemini", "Claude"}

Texts == {"Hello world", "Goodbye"}

AskBodies == {NoObject} \cup {JsonObject(q, m, Absent) : q \in Queries, m \in Models}

TtsBodies == {NoObject} \cup {JsonObject(Absent, Absent, t) : t \in {Absent, ""} \cup Texts}

\* The multipart field 'audio': missing, a readable WAV, or bytes that
\* sr.AudioFile cannot read as WAV/AIFF/FLAC.
Uploads == {Absent, "speech.wav", "notes.txt"}

----------------------------------------------------------------------------
(* Responses *)

\* jsonify({"error": msg}), status
ErrorResponse(status, msg) == [status |-> status, kind |-> "error", body |-> msg]

\* jsonify({key: value}) with the default status 200
JsonResponse(key, value) == [status |-> 200, kind |-> key, body |-> value]

\* What the framework answers when the view function raises.
InternalServerError == [status |-> 500, kind |-> "html", body |-> "Internal Server Error"]

NoResponse == [status |-> 0, kind |-> "none", body |-> ""]

\* What a handler run produced: the response, the number of outbound provider
\* calls, the number of error log entries, and the provider outcome it met.
Ran(resp, calls, logged, outcome) == [resp |-> resp, calls |-> calls, logged |-> logged, outcome |-> outcome]

----------------------------------------------------------------------------
(* /ask *)

\* str.strip() on a sequence of characters.
RECURSIVE LStrip(_)
LStrip(s) == IF s # <<>> /\ Head(s) = " " THEN LStrip(Tail(s)) ELSE s

RECURSIVE RStrip(_)
RStrip(s) == IF s # <<>> /\ s[Len(s)] = " " THEN RStrip(SubSeq(s, 1, Len(s) - 1)) ELSE s

Strip(s) == RStrip(LStrip(s))

\* Message contents the chat provider may return.
ChatContents == {<<"o", "k">>, <<" ", "o", "k", " ">>}

ChatOutcomes == {"ok", "OpenAIError", "Exception"}

GeminiOutcomes == {"200", "503", "RequestException", "Exception"}

\* A retrying adapter: a second requests.post after a failed one.
GetGeminiResponseRetry(query, outcome) ==
    IF outcome = "200" THEN
        [result |-> [error |-> Absent, answer |-> query], calls |-> 1, logged |-> 0]
    ELSE
        [result |-> [error |-> "Failed to get response from Gemini API", answer |-> Absent],
         calls |-> 2, logged |-> 2]

\* get_gemini_response: one POST; every failure is returned as a dict with an
\* "error" key, never raised.
GetGeminiResponse(query, outcome) ==
    IF outcome = "200" THEN
        [result |-> [error |-> Absent, answer |-> query], calls |-> 1, logged |-> 0]
    ELSE IF outcome = "503" THEN
        [result |-> [error |-> "Failed to get response from Gemini API: 503", answer |-> Absent],
         calls |-> 1, logged |-> 1]
    ELSE IF outcome = "RequestException" THEN
        [result |-> [error |-> "Request Error: connection refused", answer |-> Absent],
         calls |-> 1, logged |-> 1]
    ELSE
        [result |-> [error |-> "unexpected", answer |-> Absent], calls |-> 1, logged |-> 1]

\* A dispatch that treats every unrecognised model as the default one.
AskProviderFallback(ai_model, user_query, chat, content, gemini) ==
    IF ai_model = "Gemini" THEN
        LET g == GetGeminiResponse(user_query, gemini)
        IN  Ran(JsonResponse("response", g.result), g.calls, g.logged, gemini)
    ELSE IF chat = "ok" THEN
        Ran(JsonResponse("response", Strip(content)), 1, 0, chat)
    ELSE
        Ran(ErrorResponse(500, "OpenAI API Error: rate limited"), 1, 1, chat)

\* ask_juliee, lines 52-67 and 68-70: the dispatch on ai_model, the provider
\* call and the handlers of what the call raises.
AskProvider(ai_model, user_query, chat, content, gemini) ==
    IF ai_model = "ChatGPT" THEN
        IF chat = "ok" THEN
            Ran(JsonResponse("response", Strip(content)), 1, 0, chat)
        ELSE IF chat = "OpenAIError" THEN
            Ran(ErrorResponse(500, "OpenAI API Error: rate limited"), 1, 1, chat)
        ELSE
            Ran(ErrorResponse(500, "unexpected"), 1, 1, chat)
    ELSE IF ai_model = "Gemini" THEN
        \* the returned dict is wrapped as it is, "error" key or not
        LET g == GetGeminiResponse(user_query, gemini)
        IN  Ran(JsonResponse("response", g.result), g.calls, g.logged, gemini)
    ELSE
        Ran(ErrorResponse(400, "AI model not supported."), 0, 0, "none")

\* ask_juliee, lines 43-70.
AskJuliee(body, chat, content, gemini) ==
    IF ~body.isObject THEN
        \* data.get on None (or a list): AttributeError, caught by `except Exception`
        Ran(ErrorResponse(500, "object has no attribute 'get'"), 0, 1, "none")
    ELSE
        LET user_query == Get(body.data, "query", "")
            ai_model == Get(body.data, "model", "ChatGPT")
        IN  IF ~Truthy(user_query) THEN
                Ran(ErrorResponse(400, "Query is required."), 0, 0, "none")
            ELSE
                AskProvider(ai_model, user_query, chat, content, gemini)

----------------------------------------------------------------------------
(* /speech-to-text *)

RecognizeOutcomes == {"ok", "UnknownValueError", "RequestError", "Exception"}

\* speech_to_text, lines 97-118.
SpeechToText(audio, outcome) ==
    IF audio = Absent THEN
        Ran(ErrorResponse(400, "Audio file is required."), 0, 0, "none")
    ELSE IF audio # "speech.wav" THEN
        \* sr.AudioFile(...).__enter__ raises ValueError before any provider call
        Ran(ErrorResponse(500, "Audio file could not be read"), 0, 1, "none")
    ELSE IF outcome = "ok" THEN
        Ran(JsonResponse("text", "hello"), 1, 0, outcome)
    ELSE IF outcome = "UnknownValueError" THEN
        Ran(ErrorResponse(400, "Google Speech Recognition could not understand audio."), 1, 1, outcome)
    ELSE IF outcome = "RequestError" THEN
        Ran(ErrorResponse(500, "Could not request results from Google Speech Recognition service; down"),
            1, 1, outcome)
    ELSE
        Ran(ErrorResponse(500, "unexpected"), 1, 1, outcome)

----------------------------------------------------------------------------
(* /text-to-speech: the pure parts *)

SynthOutcomes == {"ok", "Boto3Error", "Exception"}

RemoveOutcomes == {"ok", "PermissionError"}

\* The bytes the synthesis provider returns for a text.
Audio(text) == <<"mp3", text>>

\* A file opened with 'wb' and not written yet.
Empty == <<>>

NotServed == <<"nothing">>

\* send_file(audio_file_path, as_attachment=True)
AudioResponse == [status |-> 200, kind |-> "audio", body |-> "speech.mp3"]

\* A cleanup whose except clause logs and falls through.
FinallyResultNoOverride(built, removeResult) ==
    IF removeResult = "FileNotFoundError" THEN InternalServerError ELSE built

\* Lines 153-160: what text_to_speech returns once the finally clause has run,
\* from the response the try/except built and the result of os.remove
\* ("none": the path did not exist, os.remove was not called).
FinallyResult(built, removeResult) ==
    IF removeResult = "PermissionError" THEN
        ErrorResponse(500, "Failed to delete the temporary file.")
    ELSE IF removeResult = "FileNotFoundError" THEN
        \* not a PermissionError: it leaves the finally clause and the view
        InternalServerError
    ELSE
        built

\* Where a request goes once its handler has returned: a 200 built by
\* send_file is streamed from the open file; anything else is sent from memory.
AfterReturn(resp) == IF resp = AudioResponse THEN "respond" ELSE "done"

----------------------------------------------------------------------------
(* State *)

VARIABLES
    pc,            \* each request's position
    req,           \* the request: endpoint and input
    outcome,       \* the provider outcome the request met ("none": no call made)
    calls,         \* outbound provider calls the request issued
    logged,        \* error log entries emitted for the request
    built,         \* text_to_speech: the response built by the try/except clauses
    resp,          \* the response returned to the client
    bound,         \* text_to_speech: the local audio_file_path is assigned
    path,          \* the inode 'speech.mp3' names (0: the path does not exist)
    content,       \* the bytes of each inode
    writer,        \* the request that last opened the path for writing
    wh,            \* text_to_speech: the inode of the handle opened with 'wb'
    rh,            \* the inode of the handle send_file opened
    served,        \* the audio bytes the client received
    removeResult,  \* text_to_speech: what os.remove did
    removedOf      \* the writer of the file the request's os.remove unlinked

vars == <<pc, req, outcome, calls, logged, built, resp, bound, path, content,
          writer, wh, rh, served, removeResult, removedOf>>

NoFile == 0

NoRequest == [endpoint |-> "none", body |-> NoObject, audio |-> Absent]

Init ==
    /\ pc = [r \in Requests |-> "idle"]
    /\ req = [r \in Requests |-> NoRequest]
    /\ outcome = [r \in Requests |-> "none"]
    /\ calls = [r \in Requests |-> 0]
    /\ logged = [r \in Requests |-> 0]
    /\ built = [r \in Requests |-> NoResponse]
    /\ resp = [r \in Requests |-> NoResponse]
    /\ bound = [r \in Requests |-> FALSE]
    /\ path = NoFile
    /\ content = [i \in Requests |-> Empty]
    /\ writer = 0
    /\ wh = [r \in Requests |-> NoFile]
    /\ rh = [r \in Requests |-> NoFile]
    /\ served = [r \in Requests |-> NotServed]
    /\ removeResult = [r \in Requests |-> "none"]
    /\ removedOf = [r \in Requests |-> 0]

fsVars == <<path, content, writer, wh, rh, served, removeResult, removedOf>>

\* A handler that runs from the request to its response in one step.
Finish(r, request, ran) ==
    /\ pc' = [pc EXCEPT ![r] = "done"]
    /\ req' = [req EXCEPT ![r] = request]
    /\ outcome' = [outcome EXCEPT ![r] = ran.outcome]
    /\ calls' = [calls EXCEPT ![r] = ran.calls]
    /\ logged' = [logged EXCEPT ![r] = ran.logged]
    /\ resp' = [resp EXCEPT ![r] = ran.resp]
    /\ UNCHANGED <<built, bound, fsVars>>

\* POST /ask
Ask(r) ==
    /\ pc[r] = "idle"
    /\ \E body \in AskBodies, chat \in ChatOutcomes, content_ \in ChatContents, gemini \in GeminiOutcomes :
          Finish(r, [endpoint |-> "ask", body |-> body, audio |-> Absent],
                 AskJuliee(body, chat, content_, gemini))

\* POST /speech-to-text
Transcribe(r) ==
    /\ pc[r] = "idle"
    /\ \E audio \in Uploads, o \in RecognizeOutcomes :
          Finish(r, [endpoint |-> "stt", body |-> NoObject, audio |-> audio],
                 SpeechToText(audio, o))

\* The request's text, once text_to_speech has read it.
TextOf(r) == Get(req[r].body.data, "text", "")

\* POST /text-to-speech, lines 123-132 and the except clauses 147-152 for a
\* failed synthesis: validation, then the one call to the provider.
TtsStart(r) ==
    /\ pc[r] = "idle"
    /\ \E body \in TtsBodies, o \in SynthOutcomes :
          LET request == [endpoint |-> "tts", body |-> body, audio |-> Absent]
              text == Get(body.data, "text", "")
          IN  IF ~body.isObject THEN
                  \* request.json.get on None, outside the try: the view raises
                  Finish(r, request, Ran(InternalServerError, 0, 1, "none"))
              ELSE IF ~Truthy(text) THEN
                  Finish(r, request, Ran(ErrorResponse(400, "Text is required for conversion."), 0, 0, "none"))
              ELSE
                  /\ req' = [req EXCEPT ![r] = request]
                  /\ outcome' = [outcome EXCEPT ![r] = o]
                  /\ calls' = [calls EXCEPT ![r] = 1]
                  /\ logged' = [logged EXCEPT ![r] = IF o = "ok" THEN 0 ELSE 1]
                  /\ built' = [built EXCEPT ![r] =
                                  IF o = "ok" THEN NoResponse
                                  ELSE IF o = "Boto3Error" THEN ErrorResponse(500, "Amazon Polly Error: throttled")
                                  ELSE ErrorResponse(500, "unexpected")]
                  /\ pc' = [pc EXCEPT ![r] = IF o = "ok" THEN "open" ELSE "finally"]
                  /\ UNCHANGED <<resp, bound, fsVars>>

\* Lines 135-136: audio_file_path is assigned and open(path, 'wb') creates the
\* file, or truncates the one the path names.
TtsOpen(r) ==
    /\ pc[r] = "open"
    /\ LET inode == IF path = NoFile THEN r ELSE path
       IN  /\ path' = inode
           /\ content' = [content EXCEPT ![inode] = Empty]
           /\ wh' = [wh EXCEPT ![r] = inode]
    /\ writer' = r
    /\ bound' = [bound EXCEPT ![r] = TRUE]
    /\ pc' = [pc EXCEPT ![r] = "write"]
    /\ UNCHANGED <<req, outcome, calls, logged, built, resp, rh, served, removeResult, removedOf>>

\* Line 137: the audio stream is read and written through the open handle;
\* a failed read or write is caught by `except Exception` (lines 150-152).
TtsWrite(r) ==
    /\ pc[r] = "write"
    /\ \E ok \in BOOLEAN :
          IF ok THEN
              /\ content' = [content EXCEPT ![wh[r]] = Audio(TextOf(r))]
              /\ pc' = [pc EXCEPT ![r] = "send"]
              /\ UNCHANGED <<logged, built>>
          ELSE
              /\ logged' = [logged EXCEPT ![r] = @ + 1]
              /\ built' = [built EXCEPT ![r] = ErrorResponse(500, "unexpected")]
              /\ pc' = [pc EXCEPT ![r] = "finally"]
              /\ UNCHANGED content
    /\ UNCHANGED <<req, outcome, calls, resp, bound, path, writer, wh, rh, served, removeResult, removedOf>>

\* Line 145: send_file opens whatever the path names now and builds the
\* response around the open file; a missing file raises FileNotFoundError.
TtsSend(r) ==
    /\ pc[r] = "send"
    /\ IF path # NoFile THEN
           /\ rh' = [rh EXCEPT ![r] = path]
           /\ built' = [built EXCEPT ![r] = AudioResponse]
           /\ UNCHANGED logged
       ELSE
           /\ logged' = [logged EXCEPT ![r] = @ + 1]
           /\ built' = [built EXCEPT ![r] = ErrorResponse(500, "No such file or directory: 'speech.mp3'")]
           /\ UNCHANGED rh
    /\ pc' = [pc EXCEPT ![r] = "finally"]
    /\ UNCHANGED <<req, outcome, calls, resp, bound, path, content, writer, wh, served, removeResult, removedOf>>

\* The handler returns `response`.
Return(r, response) ==
    /\ resp' = [resp EXCEPT ![r] = response]
    /\ pc' = [pc EXCEPT ![r] = AfterReturn(response)]

\* Line 155: os.path.exists(audio_file_path). After a failed synthesis the
\* local is unassigned and the finally clause raises UnboundLocalError, which
\* replaces the response the except clause was returning.
TtsFinally(r) ==
    /\ pc[r] = "finally"
    /\ IF ~bound[r] THEN
           /\ Return(r, InternalServerError)
           /\ logged' = [logged EXCEPT ![r] = @ + 1]
       ELSE IF path # NoFile THEN
           /\ pc' = [pc EXCEPT ![r] = "remove"]
           /\ UNCHANGED <<resp, logged>>
       ELSE
           /\ Return(r, FinallyResult(built[r], "none"))
           /\ UNCHANGED logged
    /\ UNCHANGED <<req, outcome, calls, built, bound, fsVars>>

\* Lines 156-160: os.remove(audio_file_path).
TtsRemove(r) ==
    /\ pc[r] = "remove"
    /\ \E o \in RemoveOutcomes :
          LET result == IF path = NoFile THEN "FileNotFoundError" ELSE o
          IN  /\ removeResult' = [removeResult EXCEPT ![r] = result]
              /\ Return(r, FinallyResult(built[r], result))
              /\ logged' = [logged EXCEPT ![r] = IF result = "ok" THEN @ ELSE @ + 1]
              /\ IF result = "ok" THEN
                     /\ path' = NoFile
                     /\ removedOf' = [removedOf EXCEPT ![r] = writer]
                 ELSE
                     UNCHANGED <<path, removedOf>>
    /\ UNCHANGED <<req, outcome, calls, built, bound, content, writer, wh, rh, served>>

\* After the handler has returned a send_file response, the server streams
\* the bytes of the file that send_file opened.
TtsRespond(r) ==
    /\ pc[r] = "respond"
    /\ served' = [served EXCEPT ![r] = content[rh[r]]]
    /\ pc' = [pc EXCEPT ![r] = "done"]
    /\ UNCHANGED <<req, outcome, calls, logged, built, resp, bound, path, content, writer, wh, rh,
                   removeResult, removedOf>>

Next ==
    \E r \in Requests :
        \/ Ask(r)
        \/ Transcribe(r)
        \/ TtsStart(r)
        \/ TtsOpen(r)
        \/ TtsWrite(r)
        \/ TtsSend(r)
        \/ TtsFinally(r)
        \/ TtsRemove(r)
        \/ TtsRespond(r)

Spec == Init /\ [][Next]_vars

----------------------------------------------------------------------------
(* Properties *)

Done(r) == pc[r] = "done"

IsTts(r) == req[r].endpoint = "tts"

IsAsk(r) == req[r].endpoint = "ask"

IsStt(r) == req[r].endpoint = "stt"

\* No text-to-speech request is between its first and its last step.
Quiescent == \A s \in Requests : pc[s] \in {"idle", "done"}

QueryOf(r) == Get(req[r].body.data, "query", "")

ModelOf(r) == Get(req[r].body.data, "model", "ChatGPT")

DeleteFailed == ErrorResponse(500, "Failed to delete the temporary file.")

ProviderFailed(r) == outcome[r] \notin {"none", "ok", "200"}

\* The request carries every required field with a supported value.
PassesValidation(r) ==
    \/ IsAsk(r) /\ req[r].body.isObject /\ Truthy(QueryOf(r)) /\ ModelOf(r) \in {"ChatGPT", "Gemini"}
    \/ IsStt(r) /\ req[r].audio # Absent
    \/ IsTts(r) /\ req[r].body.isObject /\ Truthy(TextOf(r))

\* C1: once a /text-to-speech request has completed (and no other one is in
\* flight), speech.mp3 does not exist, whatever synthesis and delete did.
C1_FileGoneAfterRequest ==
    \A r \in Requests : (IsTts(r) /\ Done(r) /\ Quiescent) => path = NoFile

\* C2: of two /text-to-speech requests with different text, neither is served
\* the audio written by the other and neither deletes the file the other wrote.
C2_RequestsIsolated ==
    \A r, s \in Requests :
        (r # s /\ IsTts(r) /\ IsTts(s) /\ PassesValidation(r) /\ PassesValidation(s)
              /\ TextOf(r) # TextOf(s))
        => /\ (Done(r) /\ resp[r] = AudioResponse) => served[r] # Audio(TextOf(s))
           /\ removedOf[r] # s

\* C3: when the synthesis call fails, the request creates no temporary file
\* and answers 500 with the provider-error message the except clause built.
C3_SynthesisFailureReported ==
    \A r \in Requests :
        (IsTts(r) /\ Done(r) /\ outcome[r] \in {"Boto3Error", "Exception"})
        => /\ wh[r] = NoFile
           /\ resp[r].status = 500
           /\ resp[r].kind = "error"
           /\ resp[r] = built[r]

\* C4: when the file was written, send_file built the response and os.remove
\* raised PermissionError, the client gets the 500 "Failed to delete the
\* temporary file." instead of the audio response.
C4_DeleteFailureSupersedes ==
    \A r \in Requests :
        (IsTts(r) /\ Done(r) /\ built[r] = AudioResponse /\ removeResult[r] = "PermissionError")
        => resp[r] = DeleteFailed

C4_Witness ==
    \E r \in Requests :
        /\ IsTts(r) /\ Done(r) /\ built[r] = AudioResponse
        /\ content[wh[r]] = Audio(TextOf(r))
        /\ removeResult[r] = "PermissionError"
        /\ resp[r] = DeleteFailed

\* C5: in a successful /text-to-speech request the file is deleted only after
\* it was streamed, the client receives the audio the provider returned, and
\* the file is gone once the response has been sent.
C5_DeletedAfterStreaming ==
    \A r \in Requests :
        (IsTts(r) /\ resp[r] = AudioResponse)
        => /\ removeResult[r] = "ok" => Done(r)
           /\ Done(r) => served[r] = Audio(TextOf(r))
           /\ (Done(r) /\ Quiescent) => path = NoFile

\* C6 as stated: a model outside {ChatGPT, Gemini} gets 400 "AI model not
\* supported." and no provider call, whatever the query.
C6_UnsupportedModelAnyQuery ==
    \A r \in Requests :
        (IsAsk(r) /\ Done(r) /\ req[r].body.isObject /\ ModelOf(r) \notin {"ChatGPT", "Gemini"})
        => resp[r] = ErrorResponse(400, "AI model not supported.") /\ calls[r] = 0

\* C6 as amended: a model outside {ChatGPT, Gemini} gets a 400 and no provider
\* call; the message is "AI model not supported." when the query is non-empty
\* and "Query is required." when it is empty or absent.
C6_UnsupportedModel ==
    \A r \in Requests :
        (IsAsk(r) /\ Done(r) /\ req[r].body.isObject /\ ModelOf(r) \notin {"ChatGPT", "Gemini"})
        => /\ calls[r] = 0
           /\ outcome[r] = "none"
           /\ resp[r] = IF Truthy(QueryOf(r))
                        THEN ErrorResponse(400, "AI model not supported.")
                        ELSE ErrorResponse(400, "Query is required.")

C6_Witness ==
    \E r \in Requests :
        /\ IsAsk(r) /\ Done(r) /\ Truthy(QueryOf(r)) /\ ModelOf(r) = "Claude"
        /\ resp[r] = ErrorResponse(400, "AI model not supported.")
        /\ calls[r] = 0

\* C7: a provider failure of /ask, for either model, is answered with an
\* error body and status 500, never with a 200 {response: ...}.
C7_ProviderFailureIs500 ==
    \A r \in Requests :
        (IsAsk(r) /\ Done(r) /\ ProviderFailed(r))
        => resp[r].status = 500 /\ resp[r].kind = "error"

\* C8: an /ask request whose query is empty or absent, also when the body
\* carries no query field at all, gets 400 "Query is required." and no call.
C8_QueryRequired ==
    \A r \in Requests :
        (IsAsk(r) /\ Done(r) /\ ~Truthy(QueryOf(r)))
        => resp[r] = ErrorResponse(400, "Query is required.") /\ calls[r] = 0

\* C9 as stated: a request that passes validation issues exactly one provider
\* call and one that fails validation issues none.
C9_ExactlyOneCall ==
    \A r \in Requests :
        Done(r) => calls[r] = IF PassesValidation(r) THEN 1 ELSE 0

\* The upload can be opened as an audio source.
Readable(r) == req[r].audio = "speech.wav"

\* C9 as amended: no request ever issues more than one provider call, so a
\* failed call is never re-attempted; a completed request issued exactly one
\* if it passed validation (and, for /speech-to-text, its upload could be
\* read as audio) and none otherwise.
C9_NoRetries ==
    \A r \in Requests :
        /\ calls[r] <= 1
        /\ Done(r) => calls[r] = IF PassesValidation(r) /\ (IsStt(r) => Readable(r)) THEN 1 ELSE 0

C9_Witness ==
    \E r \in Requests :
        /\ IsAsk(r) /\ Done(r) /\ PassesValidation(r)
        /\ outcome[r] = "503"
        /\ calls[r] = 1

\* C10: whenever an error response is returned, an error log entry for the
\* request was emitted before.
C10_ErrorsLogged ==
    \A r \in Requests :
        (Done(r) /\ resp[r].status >= 400) => logged[r] >= 1

====
